---- MODULE Spec2Model ----
(***************************************************************************)
(* A model of the particle simulation of src/src/main.cpp (the render     *)
(* loop: spawn check, Verlet integration pass, wall collision pass,        *)
(* position upload), of the uniform grid of src/src/SpatialGrid.h, of      *)
(* optimizedWallCollision of src/optimizations.cpp and of the timers of    *)
(* src/src/PerformanceProfiler.h.                                          *)
(*                                                                         *)
(* Numbers.  The program computes in float.  The model computes in exact   *)
(* arithmetic on a fixed grid: a coordinate c of the program is the        *)
(* integer c * Unit.  Every constant of the program (the spawn point, the  *)
(* initial velocity times deltaTime, gravity times deltaTime squared, the  *)
(* radius, the walls) is a whole number of grid steps, and the loop only   *)
(* adds, subtracts and doubles, so no rounding happens in the model.       *)
(* Float rounding error itself is not modelled.                            *)
(*                                                                         *)
(* Arrays.  positions, lastPositions and acceleration are the flat float   *)
(* vectors of the program (two entries per particle), radiusColorData has  *)
(* four entries per particle.  The C++ index k is the TLA+ index k + 1.    *)
(***************************************************************************)
EXTENDS Integers, Sequences, FiniteSets, TLC

VARIABLES
    positions,                \* std::vector<float> positions
    lastPositions,            \* std::vector<float> lastPositions
    acceleration,             \* std::vector<float> acceleration
    radiusColorData,          \* std::vector<float> radiusColorData
    remainingCirclesToSpawn,  \* int remainingCirclesToSpawn
    timeFromLastSpawn,        \* frameStartTime - spawnTimer, in ms (saturated)
    physicsStep,              \* the sub-step loop counter
    pc,                       \* position of main() in the render loop
    tick,                     \* number of loop iterations started (bounded)
    stepStart,                \* history: positions when the sub-step began
    stages,                   \* history: stages the current sub-step has run
    frameLog,                 \* history: what the current iteration has done
    uploaded,                 \* contents of the position buffer of the GPU
    instances,                \* instance count of the last draw call
    \* one call of optimizedWallCollision
    wPos, wLast,              \* float& pos, float& lastPos
    wMin, wMax, wDamp,        \* wallMin, wallMax, damping (in halves)
    wOldPos, wOldLast,        \* history: the arguments on entry
    wpc,                      \* "call" before the call, "done" after it
    \* a SpatialGrid object and its caller
    gState,                   \* "none", "constructed", "threw", "crashed", "corrupt"
    cellSize, gridWidth, gridHeight,
    worldMinX, worldMinY, worldMaxX, worldMaxY,
    grid,                     \* std::vector<std::vector<int>> grid
    parts,                    \* caller: the particles added since clear()
    query,                    \* caller: the arguments of the last query
    nearby,                   \* the vector getNearbyParticles returned
    \* a PerformanceProfiler object and its caller
    timers,                   \* std::vector<TimingData> timers
    startTime,                \* time_point startTime, in microseconds
    now,                      \* the reading of high_resolution_clock
    calls                     \* history: every endTimer call, in call order

mainVars == <<positions, lastPositions, acceleration, radiusColorData,
              remainingCirclesToSpawn, timeFromLastSpawn, physicsStep, pc,
              tick, stepStart, stages,
              frameLog, uploaded, instances>>

wallVars == <<wPos, wLast, wMin, wMax, wDamp, wOldPos, wOldLast, wpc>>

gridVars == <<gState, cellSize, gridWidth, gridHeight, worldMinX, worldMinY,
              worldMaxX, worldMaxY, grid, parts, query, nearby>>

profVars == <<timers, startTime, now, calls>>

vars == <<mainVars, wallVars, gridVars, profVars>>

----------------------------------------------------------------------------
(* Bounds of the model *)

\* The configured maximum particle count.  The program sets 100
\* (src/src/main.cpp:24); the model explores a smaller maximum.
NUMCIRCLES == 4

\* Loop iterations explored.
MaxFrames == 40

\* Measurements a timer keeps.  The program keeps 100
\* (src/src/PerformanceProfiler.h:71); the model explores a smaller window.
MaxMeasurements == 2

\* The clock reading up to which the calls of the profiler are explored.
MaxNow == 6

----------------------------------------------------------------------------
(* Program constants *)

TARGET_FPS == 60
UPDATER_PER_FRAME == 1
SPAWN_INTERVAL_MS == 50

\* Grid steps per world unit.
Unit == 20 * TARGET_FPS

\* 1 / deltaTime: deltaTime = (1 / TARGET_FPS) / UPDATER_PER_FRAME
deltaTimeInv == TARGET_FPS * UPDATER_PER_FRAME

\* const float radius = 0.025f
radius == (25 * Unit) \div 1000

wallLeft == (0 - Unit) + radius
wallRight == Unit - radius
wallBottom == (0 - Unit) + radius
wallTop == Unit - radius

radiusSum == 2 * radius
radiusSumSquared == radiusSum * radiusSum

\* Durations of one loop iteration, in ms: the frame limiter sleeps up to
\* 1/60 s, a slow frame takes longer.
FrameMs == {17, 50}

----------------------------------------------------------------------------
(* Helpers for the flat arrays *)

Min(a, b) == IF a < b THEN a ELSE b
Max(a, b) == IF a > b THEN a ELSE b

\* TLA+ index of positions[i * 2] and of positions[i * 2 + 1]
IX(i) == 2 * i + 1
IY(i) == 2 * i + 2

\* A mutation: the passes loop over all NUMCIRCLES slots, spawned or not.
LiveCountAll == NUMCIRCLES

\* NUMCIRCLES - remainingCirclesToSpawn: the loop bound of both passes
LiveCount == NUMCIRCLES - remainingCirclesToSpawn

\* x * deltaTime, for x = num / 10
TimesDeltaTime(num) == (num * Unit) \div (10 * deltaTimeInv)

\* a * deltaTime * deltaTime
TimesDeltaTimeSquared(a) == (a * Unit) \div (deltaTimeInv * deltaTimeInv)

----------------------------------------------------------------------------
(* generatePositionsAndStaticData: appends one particle *)

\* A mutation: every push_back is made twice, so a call adds two particles.
generatePositionsAndStaticDataTwice(last, pos, rcd, acc) ==
    LET px == (0 - 9 * Unit) \div 10
        py == (9 * Unit) \div 10
        lx == px - TimesDeltaTime(41)
        ly == py + TimesDeltaTime(24)
    IN [lastPositions |-> last \o <<lx, ly, lx, ly>>,
        positions |-> pos \o <<px, py, px, py>>,
        radiusColorData |-> rcd \o <<radius, Unit, Unit, Unit,
                                      radius, Unit, Unit, Unit>>,
        acceleration |-> acc \o <<0, -3, 0, -3>>]

\* A mutation: the static vector is cleared before the new tuple is pushed,
\* so the attributes of the particles spawned earlier are lost.
generatePositionsAndStaticDataReset(last, pos, rcd, acc) ==
    LET px == (0 - 9 * Unit) \div 10
        py == (9 * Unit) \div 10
        lx == px - TimesDeltaTime(41)
        ly == py + TimesDeltaTime(24)
    IN [lastPositions |-> last \o <<lx, ly>>,
        positions |-> pos \o <<px, py>>,
        radiusColorData |-> <<radius, Unit, Unit, Unit>>,
        acceleration |-> acc \o <<0, -3>>]

\* The four vectors after the call.  Colour components are stored on the
\* same scale as coordinates (1.0f is Unit).
generatePositionsAndStaticData(last, pos, rcd, acc) ==
    LET pos1 == pos \o <<(0 - 9 * Unit) \div 10, (9 * Unit) \div 10>>
        last0 == last \o <<(0 - 9 * Unit) \div 10, (9 * Unit) \div 10>>
        acc1 == acc \o <<0, -3>>
        rcd1 == rcd \o <<radius, Unit, Unit, Unit>>
        currentCircleIndex == (Len(pos1) \div 2) - 1
        last1 == [last0 EXCEPT
                    ![IX(currentCircleIndex)] =
                        pos1[IX(currentCircleIndex)] - TimesDeltaTime(41),
                    ![IY(currentCircleIndex)] =
                        pos1[IY(currentCircleIndex)] + TimesDeltaTime(24)]
    IN [lastPositions |-> last1, positions |-> pos1,
        radiusColorData |-> rcd1, acceleration |-> acc1]

----------------------------------------------------------------------------
(* The Verlet integration pass *)

\* One iteration of the loop body for particle i.
\* A mutation: lastPositions takes the already updated position.
VerletBodyStale(i, pl) ==
    LET pos == pl[1]
        last == pl[2]
        nx == 2 * pos[IX(i)] - last[IX(i)] + TimesDeltaTimeSquared(acceleration[IX(i)])
        ny == 2 * pos[IY(i)] - last[IY(i)] + TimesDeltaTimeSquared(acceleration[IY(i)])
    IN <<[pos EXCEPT ![IX(i)] = nx, ![IY(i)] = ny],
         [last EXCEPT ![IX(i)] = nx, ![IY(i)] = ny]>>

VerletBody(i, pl) ==
    LET pos == pl[1]
        last == pl[2]
        tempX == pos[IX(i)]
        tempY == pos[IY(i)]
        nx == 2 * pos[IX(i)] - last[IX(i)] + TimesDeltaTimeSquared(acceleration[IX(i)])
        ny == 2 * pos[IY(i)] - last[IY(i)] + TimesDeltaTimeSquared(acceleration[IY(i)])
    IN <<[pos EXCEPT ![IX(i)] = nx, ![IY(i)] = ny],
         [last EXCEPT ![IX(i)] = tempX, ![IY(i)] = tempY]>>

\* for (int i = 0; i < NUMCIRCLES - remainingCirclesToSpawn; i++)
RECURSIVE VerletLoop(_, _, _)
VerletLoop(i, n, pl) ==
    IF i < n THEN VerletLoop(i + 1, n, VerletBody(i, pl)) ELSE pl

----------------------------------------------------------------------------
(* The wall collision pass *)

\* One axis of one particle: <<position, lastPosition>> after the two
\* branches.  The reflection reads the position after it was set to the wall.
\* A mutation: the upper wall is not enforced.
WallAxisNoUpper(p, l, lo, hi) ==
    IF p <= lo THEN <<lo, lo + (lo - l)>>
    ELSE <<p, l>>

WallAxis(p, l, lo, hi) ==
    IF p <= lo THEN <<lo, lo + (lo - l)>>
    ELSE IF p >= hi THEN <<hi, hi + (hi - l)>>
    ELSE <<p, l>>

WallBody(i, pl) ==
    LET pos == pl[1]
        last == pl[2]
        ax == WallAxis(pos[IX(i)], last[IX(i)], wallLeft, wallRight)
        ay == WallAxis(pos[IY(i)], last[IY(i)], wallBottom, wallTop)
    IN <<[pos EXCEPT ![IX(i)] = ax[1], ![IY(i)] = ay[1]],
         [last EXCEPT ![IX(i)] = ax[2], ![IY(i)] = ay[2]]>>

RECURSIVE WallLoop(_, _, _)
WallLoop(i, n, pl) ==
    IF i < n THEN WallLoop(i + 1, n, WallBody(i, pl)) ELSE pl

----------------------------------------------------------------------------
(* The render loop of main() *)

\* A mutation: the spawn check ignores the remaining count.
SpawnDueNoCap(remaining, elapsed) == elapsed >= SPAWN_INTERVAL_MS

\* if (remainingCirclesToSpawn > 0 && timeFromLastSpawn >= spawnInterval)
SpawnDue(remaining, elapsed) ==
    remaining > 0 /\ elapsed >= SPAWN_INTERVAL_MS

\* A mutation: the sub-step loop runs once more than configured.
SubStepLoopContinuesOnceMore(step) == step <= UPDATER_PER_FRAME

\* for (int physicsStep = 0; physicsStep < UPDATER_PER_FRAME; physicsStep++)
SubStepLoopContinues(step) == step < UPDATER_PER_FRAME

MainInit ==
    LET first == generatePositionsAndStaticData(<<>>, <<>>, <<>>, <<>>)
    IN /\ positions = first.positions
       /\ lastPositions = first.lastPositions
       /\ acceleration = first.acceleration
       /\ radiusColorData = first.radiusColorData
       /\ remainingCirclesToSpawn = NUMCIRCLES - 1
       /\ timeFromLastSpawn = 0
       /\ physicsStep = 0
       /\ pc = "loop"
       /\ tick = 0
       /\ stepStart = first.positions
       /\ stages = <<>>
       /\ frameLog = <<>>
       /\ uploaded = first.positions
       /\ instances = 0

\* while (!glfwWindowShouldClose(window)): a new iteration; the clocks are read.
FrameStart ==
    /\ pc = "loop"
    /\ tick < MaxFrames
    /\ \E d \in FrameMs :
          timeFromLastSpawn' = Min(timeFromLastSpawn + d, SPAWN_INTERVAL_MS)
    /\ tick' = tick + 1
    /\ pc' = "spawn"
    /\ frameLog' = <<>>
    /\ UNCHANGED <<positions, lastPositions, acceleration, radiusColorData,
                   remainingCirclesToSpawn, physicsStep, stepStart, stages,
                   uploaded, instances>>
    /\ UNCHANGED <<wallVars, gridVars, profVars>>

\* glfwWindowShouldClose(window) is true: the loop ends, main returns.
WindowClose ==
    /\ pc = "loop"
    /\ pc' = "exit"
    /\ UNCHANGED <<positions, lastPositions, acceleration, radiusColorData,
                   remainingCirclesToSpawn, timeFromLastSpawn, physicsStep,
                   tick, stepStart, stages, frameLog, uploaded, instances>>
    /\ UNCHANGED <<wallVars, gridVars, profVars>>

\* The spawn check, then the sub-step loop is entered with physicsStep = 0.
SpawnCheck ==
    /\ pc = "spawn"
    /\ IF SpawnDue(remainingCirclesToSpawn, timeFromLastSpawn)
       THEN LET g == generatePositionsAndStaticData(lastPositions, positions,
                                                    radiusColorData, acceleration)
            IN /\ positions' = g.positions
               /\ lastPositions' = g.lastPositions
               /\ radiusColorData' = g.radiusColorData
               /\ acceleration' = g.acceleration
               /\ remainingCirclesToSpawn' = remainingCirclesToSpawn - 1
               /\ timeFromLastSpawn' = 0
       ELSE UNCHANGED <<positions, lastPositions, radiusColorData, acceleration,
                        remainingCirclesToSpawn, timeFromLastSpawn>>
    /\ physicsStep' = 0
    /\ pc' = "physics"
    /\ frameLog' = Append(frameLog, "SpawnCheck")
    /\ UNCHANGED <<tick, stepStart, stages, uploaded, instances>>
    /\ UNCHANGED <<wallVars, gridVars, profVars>>

\* physicsStep < UPDATER_PER_FRAME: the Verlet integration pass.
Integrate ==
    /\ pc = "physics"
    /\ SubStepLoopContinues(physicsStep)
    /\ LET r == VerletLoop(0, LiveCount, <<positions, lastPositions>>)
       IN /\ positions' = r[1]
          /\ lastPositions' = r[2]
    /\ stepStart' = positions
    /\ stages' = <<"Integrate">>
    /\ pc' = "walls"
    /\ UNCHANGED <<acceleration, radiusColorData, remainingCirclesToSpawn,
                   timeFromLastSpawn, physicsStep, tick, frameLog, uploaded,
                   instances>>
    /\ UNCHANGED <<wallVars, gridVars, profVars>>

\* The wall collision pass; it ends the sub-step (physicsStep++).
WallPass ==
    /\ pc = "walls"
    /\ LET r == WallLoop(0, LiveCount, <<positions, lastPositions>>)
       IN /\ positions' = r[1]
          /\ lastPositions' = r[2]
    /\ stages' = Append(stages, "BoundaryResolve")
    /\ physicsStep' = physicsStep + 1
    /\ pc' = "physics"
    /\ frameLog' = Append(frameLog, "SubStep")
    /\ UNCHANGED <<acceleration, radiusColorData, remainingCirclesToSpawn,
                   timeFromLastSpawn, tick, stepStart, uploaded, instances>>
    /\ UNCHANGED <<wallVars, gridVars, profVars>>

\* The sub-step loop is over: positions are uploaded (glBufferSubData) and
\* drawn (glDrawElementsInstanced), the iteration ends.
Render ==
    /\ pc = "physics"
    /\ ~SubStepLoopContinues(physicsStep)
    /\ uploaded' = positions
    /\ instances' = NUMCIRCLES - remainingCirclesToSpawn
    /\ frameLog' = Append(frameLog, "Render")
    /\ pc' = "loop"
    /\ UNCHANGED <<positions, lastPositions, acceleration, radiusColorData,
                   remainingCirclesToSpawn, timeFromLastSpawn, physicsStep,
                   tick, stepStart, stages>>
    /\ UNCHANGED <<wallVars, gridVars, profVars>>

----------------------------------------------------------------------------
(* optimizedWallCollision (src/optimizations.cpp) *)

\* The damping argument is given in halves: damping2 = 2 is damping 1.0,
\* damping2 = 1 is damping 0.5.  The product with an even difference is exact.
\* A mutation: the upper wall forgets the damping.
optimizedWallCollisionUndamped(pos, lastPos, wallMin, wallMax, damping2) ==
    IF pos < wallMin
    THEN <<wallMin, wallMin + ((pos - lastPos) * damping2) \div 2>>
    ELSE IF pos > wallMax
    THEN <<wallMax, wallMax + (pos - lastPos)>>
    ELSE <<pos, lastPos>>

\* The pair <<pos, lastPos>> the two references hold on return.
optimizedWallCollision(pos, lastPos, wallMin, wallMax, damping2) ==
    IF pos < wallMin
    THEN <<wallMin, wallMin + ((pos - lastPos) * damping2) \div 2>>
    ELSE IF pos > wallMax
    THEN <<wallMax, wallMax + ((pos - lastPos) * damping2) \div 2>>
    ELSE <<pos, lastPos>>

\* Coordinates a call is tried on: the even numbers up to 2 * WallSpan.
WallSpan == 4

WallCoords == {2 * k : k \in (0 - WallSpan) .. WallSpan}

\* The walls of the calls, each pair with wallMin < wallMax.
WallPairs == {<<-4, 4>>, <<-2, 6>>}

MainIdle ==
    LET first == generatePositionsAndStaticData(<<>>, <<>>, <<>>, <<>>)
    IN /\ positions = first.positions
       /\ lastPositions = first.lastPositions
       /\ acceleration = first.acceleration
       /\ radiusColorData = first.radiusColorData
       /\ remainingCirclesToSpawn = NUMCIRCLES - 1
       /\ timeFromLastSpawn = 0
       /\ physicsStep = 0
       /\ pc = "idle"
       /\ tick = 0
       /\ stepStart = first.positions
       /\ stages = <<>>
       /\ frameLog = <<>>
       /\ uploaded = first.positions
       /\ instances = 0

WallIdle ==
    /\ wPos = 0 /\ wLast = 0 /\ wMin = 0 /\ wMax = 0 /\ wDamp = 0
    /\ wOldPos = 0 /\ wOldLast = 0 /\ wpc = "idle"

WallInit ==
    /\ wPos \in WallCoords
    /\ wLast \in WallCoords
    /\ \E w \in WallPairs : wMin = w[1] /\ wMax = w[2]
    /\ wDamp \in {0, 1, 2}
    /\ wOldPos = wPos
    /\ wOldLast = wLast
    /\ wpc = "call"

\* optimizedWallCollision(pos, lastPos, wallMin, wallMax, damping)
WallCall ==
    /\ wpc = "call"
    /\ LET r == optimizedWallCollision(wPos, wLast, wMin, wMax, wDamp)
       IN /\ wPos' = r[1]
          /\ wLast' = r[2]
    /\ wpc' = "done"
    /\ UNCHANGED <<wMin, wMax, wDamp, wOldPos, wOldLast>>
    /\ UNCHANGED <<mainVars, gridVars, profVars>>

----------------------------------------------------------------------------
(* SpatialGrid (src/src/SpatialGrid.h) *)

\* static_cast<int>(a / b) for b # 0: the quotient truncated towards zero.
CastIntDiv(a, b) ==
    LET qa == IF a < 0 THEN 0 - a ELSE a
        qb == IF b < 0 THEN 0 - b ELSE b
    IN IF (a < 0) = (b < 0) THEN qa \div qb ELSE 0 - (qa \div qb)

\* A mutation: the clamp has no upper end.
ClampCellNoUpper(g, limit) == Max(0, g)

\* std::max(0, std::min(g, limit - 1))
ClampCell(g, limit) == Max(0, Min(g, limit - 1))

\* The cell index addParticle computes for (x, y).
CellIndex(x, y) ==
    LET gridX == ClampCell(CastIntDiv(x - worldMinX, cellSize), gridWidth)
        gridY == ClampCell(CastIntDiv(y - worldMinY, cellSize), gridHeight)
    IN gridY * gridWidth + gridX

\* The cell range of a query, as <<minGridX, maxGridX, minGridY, maxGridY>>.
\* A mutation: the query radius is left out of the range.
QueryRangeNoRadius(x, y, r) ==
    <<ClampCell(CastIntDiv(x - worldMinX, cellSize), gridWidth),
      ClampCell(CastIntDiv(x - worldMinX, cellSize), gridWidth),
      ClampCell(CastIntDiv(y - worldMinY, cellSize), gridHeight),
      ClampCell(CastIntDiv(y - worldMinY, cellSize), gridHeight)>>

QueryRange(x, y, r) ==
    <<ClampCell(CastIntDiv(x - r - worldMinX, cellSize), gridWidth),
      ClampCell(CastIntDiv(x + r - worldMinX, cellSize), gridWidth),
      ClampCell(CastIntDiv(y - r - worldMinY, cellSize), gridHeight),
      ClampCell(CastIntDiv(y + r - worldMinY, cellSize), gridHeight)>>

\* The cell indices the two nested loops visit, in the order they visit them.
QueryCells(x, y, r) ==
    LET q == QueryRange(x, y, r)
        nx == Max(0, q[2] - q[1] + 1)
        ny == Max(0, q[4] - q[3] + 1)
    IN [k \in 1 .. (nx * ny) |->
           (q[3] + ((k - 1) \div nx)) * gridWidth + (q[1] + ((k - 1) % nx))]

\* The buckets of the visited cells, appended one after the other.
RECURSIVE Gather(_, _, _)
Gather(g, cells, k) ==
    IF k > Len(cells) THEN <<>>
    ELSE g[cells[k] + 1] \o Gather(g, cells, k + 1)

\* Arguments a caller constructs a grid with.
CellSizes == {-2, 2}
WorldXs == {<<0, 3>>, <<4, 0>>}
WorldYs == {<<0, 2>>, <<2, 0>>}

\* Coordinates and radii of the caller's particles; some lie outside the
\* world of every grid above, near enough for the truncation alone to put
\* them into a border cell (-1) or so far that only the clamp does (-2, 4).
GridXs == {-2, -1, 1, 2, 4}
GridYs == {0, 1, 2, 4}
Radii == {1}
QueryRadii == {2, 3}

\* Particles the caller adds between two calls of clear().
MaxParts == 2

GridIdle ==
    /\ gState = "idle"
    /\ cellSize = 0 /\ gridWidth = 0 /\ gridHeight = 0
    /\ worldMinX = 0 /\ worldMinY = 0 /\ worldMaxX = 0 /\ worldMaxY = 0
    /\ grid = <<>> /\ parts = <<>> /\ query = <<>> /\ nearby = <<>>

GridInit ==
    /\ gState = "none"
    /\ cellSize = 0 /\ gridWidth = 0 /\ gridHeight = 0
    /\ worldMinX = 0 /\ worldMinY = 0 /\ worldMaxX = 0 /\ worldMaxY = 0
    /\ grid = <<>> /\ parts = <<>> /\ query = <<>> /\ nearby = <<>>

\* SpatialGrid(cellSize, minX, minY, maxX, maxY).  The constructor checks
\* nothing.  grid.resize(gridWidth * gridHeight) converts the int product to
\* size_t: a negative product is a size above max_size(), and resize throws
\* std::length_error.  cellSize = 0 (a float division by zero, then an
\* undefined conversion to int) is not among the arguments tried.
Construct ==
    /\ gState = "none"
    /\ \E cs \in CellSizes : \E wx \in WorldXs : \E wy \in WorldYs :
          LET w == CastIntDiv(wx[2] - wx[1], cs) + 1
              h == CastIntDiv(wy[2] - wy[1], cs) + 1
          IN /\ cellSize' = cs
             /\ worldMinX' = wx[1] /\ worldMaxX' = wx[2]
             /\ worldMinY' = wy[1] /\ worldMaxY' = wy[2]
             /\ gridWidth' = w
             /\ gridHeight' = h
             /\ IF w * h < 0
                THEN gState' = "threw" /\ grid' = <<>>
                ELSE /\ gState' = "constructed"
                     /\ grid' = [k \in 1 .. (w * h) |-> <<>>]
    /\ UNCHANGED <<parts, query, nearby>>
    /\ UNCHANGED <<mainVars, wallVars, profVars>>

\* clear(): every bucket is emptied.  The caller starts a new rebuild.
Clear ==
    /\ gState = "constructed"
    /\ grid' = [k \in 1 .. Len(grid) |-> <<>>]
    /\ parts' = <<>>
    /\ query' = <<>>
    /\ nearby' = <<>>
    /\ UNCHANGED <<gState, cellSize, gridWidth, gridHeight, worldMinX,
                   worldMinY, worldMaxX, worldMaxY>>
    /\ UNCHANGED <<mainVars, wallVars, profVars>>

\* addParticle(particleIndex, x, y), the caller adding its next particle.
\* grid[cellIndex] with cellIndex outside the vector is undefined behaviour:
\* the process crashes or goes on with corrupted memory.
AddParticle ==
    /\ gState = "constructed"
    /\ Len(parts) < MaxParts
    /\ \E x \in GridXs : \E y \in GridYs : \E r \in Radii :
          LET particleIndex == Len(parts)
              cellIndex == CellIndex(x, y)
          IN IF cellIndex >= 0 /\ cellIndex < Len(grid)
             THEN /\ grid' = [grid EXCEPT ![cellIndex + 1] =
                                              Append(@, particleIndex)]
                  /\ parts' = Append(parts, [x |-> x, y |-> y, r |-> r])
                  /\ gState' = gState
             ELSE /\ gState' \in {"crashed", "corrupt"}
                  /\ UNCHANGED <<grid, parts>>
    /\ query' = <<>>
    /\ nearby' = <<>>
    /\ UNCHANGED <<cellSize, gridWidth, gridHeight, worldMinX, worldMinY,
                   worldMaxX, worldMaxY>>
    /\ UNCHANGED <<mainVars, wallVars, profVars>>

\* getNearbyParticles(x, y, radius) around the position of particle i.  The
\* call changes no field of the grid, so the caller's queries do not depend
\* on each other: the model makes each from the state the last clear() or
\* addParticle left.
GetNearbyParticles ==
    /\ gState = "constructed"
    /\ query = <<>>
    /\ \E i \in 1 .. Len(parts) : \E r \in QueryRadii :
          LET cells == QueryCells(parts[i].x, parts[i].y, r)
          IN IF \A k \in 1 .. Len(cells) : cells[k] >= 0 /\ cells[k] < Len(grid)
             THEN /\ nearby' = Gather(grid, cells, 1)
                  /\ query' = <<[i |-> i - 1, r |-> r]>>
                  /\ gState' = gState
             ELSE /\ gState' \in {"crashed", "corrupt"}
                  /\ UNCHANGED <<nearby, query>>
    /\ UNCHANGED <<cellSize, gridWidth, gridHeight, worldMinX, worldMinY,
                   worldMaxX, worldMaxY, grid, parts>>
    /\ UNCHANGED <<mainVars, wallVars, profVars>>

----------------------------------------------------------------------------
(* PerformanceProfiler (src/src/PerformanceProfiler.h) *)

\* Names the caller passes, and microseconds that pass before a call reads
\* the clock.
TimerNames == {"a", "b"}
Ticks == {1, 2}

\* The index of the first entry with the name, 0 if there is none
\* (std::find_if from timers.begin()).
FindTimer(ts, name) ==
    IF \E k \in DOMAIN ts : ts[k].name = name
    THEN CHOOSE k \in DOMAIN ts :
            /\ ts[k].name = name
            /\ \A j \in DOMAIN ts : (ts[j].name = name) => (k <= j)
    ELSE 0

\* A mutation: the evicted measurement stays in totalTime.
endTimerKeepsTotal(ts, name, microseconds) ==
    LET it == FindTimer(ts, name)
    IN IF it = 0
       THEN Append(ts, [name |-> name,
                        measurements |-> <<microseconds>>,
                        totalTime |-> microseconds,
                        callCount |-> 1])
       ELSE LET pushed == Append(ts[it].measurements, microseconds)
                total == ts[it].totalTime + microseconds
            IN IF Len(pushed) > MaxMeasurements
               THEN [ts EXCEPT ![it] = [name |-> name,
                                        measurements |-> Tail(pushed),
                                        totalTime |-> total,
                                        callCount |-> Len(Tail(pushed))]]
               ELSE [ts EXCEPT ![it] = [name |-> name,
                                        measurements |-> pushed,
                                        totalTime |-> total,
                                        callCount |-> ts[it].callCount + 1]]

\* timers after endTimer(name) has measured the duration microseconds.
endTimer(ts, name, microseconds) ==
    LET it == FindTimer(ts, name)
    IN IF it = 0
       THEN Append(ts, [name |-> name,
                        measurements |-> <<microseconds>>,
                        totalTime |-> microseconds,
                        callCount |-> 1])
       ELSE LET pushed == Append(ts[it].measurements, microseconds)
                total == ts[it].totalTime + microseconds
            IN IF Len(pushed) > MaxMeasurements
               THEN [ts EXCEPT ![it] = [name |-> name,
                                        measurements |-> Tail(pushed),
                                        totalTime |-> total - Head(pushed),
                                        callCount |-> Len(Tail(pushed))]]
               ELSE [ts EXCEPT ![it] = [name |-> name,
                                        measurements |-> pushed,
                                        totalTime |-> total,
                                        callCount |-> ts[it].callCount + 1]]

\* A profiler after construction: no timer, startTime the epoch of the clock.
ProfInit ==
    /\ timers = <<>>
    /\ startTime = 0
    /\ now = 0
    /\ calls = <<>>

\* startTimer(name): the name is not used, the one startTime is overwritten.
StartTimer ==
    /\ \E name \in TimerNames : \E d \in Ticks :
          /\ now + d <= MaxNow
          /\ now' = now + d
          /\ startTime' = now + d
    /\ UNCHANGED <<timers, calls>>
    /\ UNCHANGED <<mainVars, wallVars, gridVars>>

\* endTimer(name): the time since the last startTimer call of any name is
\* stored under the name.
EndTimer ==
    /\ \E name \in TimerNames : \E d \in Ticks :
          /\ now + d <= MaxNow
          /\ now' = now + d
          /\ timers' = endTimer(timers, name, now + d - startTime)
          /\ calls' = Append(calls, [name |-> name,
                                     microseconds |-> now + d - startTime])
    /\ UNCHANGED startTime
    /\ UNCHANGED <<mainVars, wallVars, gridVars>>

----------------------------------------------------------------------------
(* The wall pass on one particle near a corner of the box *)

\* Coordinates of a particle after the integration pass, next to the lower
\* and the upper wall of an axis (both axes have the walls -0.975 and 0.975):
\* <<position, lastPosition>>, lastPosition being the position of the
\* sub-step before, which lies inside the walls.
PassAxisStates ==
    {<<wallLeft + d[1], wallLeft + d[2]>> :
        d \in {-1, 0, 36} \X {0, 9, 35}}
    \cup {<<wallRight - d[1], wallRight - d[2]>> :
        d \in {-1, 0, 36} \X {0, 9, 35}}

\* The loop has integrated its only particle and is about to run the wall
\* pass on it.
WallPassInit ==
    /\ \E sx \in PassAxisStates, sy \in PassAxisStates :
          /\ positions = <<sx[1], sy[1]>>
          /\ lastPositions = <<sx[2], sy[2]>>
          /\ stepStart = <<sx[2], sy[2]>>
    /\ acceleration = <<0, -3>>
    /\ radiusColorData = <<radius, Unit, Unit, Unit>>
    /\ remainingCirclesToSpawn = NUMCIRCLES - 1
    /\ timeFromLastSpawn = 0
    /\ physicsStep = 0
    /\ pc = "walls"
    /\ tick = 1
    /\ stages = <<"Integrate">>
    /\ frameLog = <<"SpawnCheck">>
    /\ uploaded = stepStart
    /\ instances = 1

----------------------------------------------------------------------------
(* Specifications *)

Init == MainInit /\ WallIdle /\ GridIdle /\ ProfInit

Next ==
    \/ FrameStart
    \/ WindowClose
    \/ SpawnCheck
    \/ Integrate
    \/ WallPass
    \/ Render

\* The render loop of main().
Spec == Init /\ [][Next]_vars

WallSpecInit == MainIdle /\ WallInit /\ GridIdle /\ ProfInit

WallNext == WallCall

\* One call of optimizedWallCollision on arguments drawn from bounded sets.
WallSpec == WallSpecInit /\ [][WallNext]_vars

WallPassSpecInit == WallPassInit /\ WallIdle /\ GridIdle /\ ProfInit

WallPassNext == WallPass

\* One wall pass of the loop on a particle near a corner of the box.
WallPassSpec == WallPassSpecInit /\ [][WallPassNext]_vars

GridSpecInit == MainIdle /\ WallIdle /\ GridInit /\ ProfInit

GridNext ==
    \/ Construct
    \/ Clear
    \/ AddParticle
    \/ GetNearbyParticles

\* A SpatialGrid object under the calls of a caller.
GridSpec == GridSpecInit /\ [][GridNext]_vars

ProfSpecInit == MainIdle /\ WallIdle /\ GridIdle /\ ProfInit

ProfNext ==
    \/ StartTimer
    \/ EndTimer

\* A PerformanceProfiler object under the calls of a caller.
ProfSpec == ProfSpecInit /\ [][ProfNext]_vars

----------------------------------------------------------------------------
(* Properties of the render loop *)

NumParticles == Len(positions) \div 2

Particles == 0 .. (NumParticles - 1)

\* A sub-step has run to its end (integration, then the wall pass).
SubStepDone == pc = "physics" /\ physicsStep > 0

InsideWalls(pos, i) ==
    /\ wallLeft <= pos[IX(i)] /\ pos[IX(i)] <= wallRight
    /\ wallBottom <= pos[IY(i)] /\ pos[IY(i)] <= wallTop

\* dx * dx + dy * dy of the commented-out collision block
distanceSquared(pos, i, j) ==
    (pos[IX(i)] - pos[IX(j)]) * (pos[IX(i)] - pos[IX(j)])
    + (pos[IY(i)] - pos[IY(j)]) * (pos[IY(i)] - pos[IY(j)])

\* distanceSquared < radiusSumSquared && distanceSquared > 0.0001f
Colliding(pos, i, j) ==
    /\ distanceSquared(pos, i, j) < radiusSumSquared
    /\ distanceSquared(pos, i, j) * 10000 > Unit * Unit

\* C1: Containment.  In every state but the one between the integration
\* pass and the wall pass of a sub-step, so in particular after every
\* completed sub-step, both coordinates of every particle lie within
\* [-1 + radius, 1 - radius].
Containment ==
    pc # "walls" => \A i \in Particles : InsideWalls(positions, i)

\* C1 witness: a sub-step has ended in which a particle that started inside
\* the right wall was put on it by the wall pass.
ContainmentWitness ==
    /\ SubStepDone
    /\ \E i \in Particles :
          /\ stepStart[IX(i)] < wallRight
          /\ positions[IX(i)] = wallRight

\* C2: Spawn cap.  The particle count never exceeds NUMCIRCLES, and a spawn
\* check made when the count equals NUMCIRCLES changes no particle array and
\* no count, and the loop goes on to the physics sub-steps.
SpawnCap ==
    /\ [](NumParticles <= NUMCIRCLES)
    /\ [][(pc = "spawn" /\ NumParticles = NUMCIRCLES)
            => /\ UNCHANGED <<positions, lastPositions, acceleration,
                              radiusColorData, remainingCirclesToSpawn>>
               /\ pc' = "physics"]_vars

\* C2 witness: a spawn check has just been made with the spawn interval
\* elapsed and the count at the maximum (a spawn would have reset the timer).
SpawnCapWitness ==
    /\ pc = "physics" /\ physicsStep = 0
    /\ NumParticles = NUMCIRCLES
    /\ timeFromLastSpawn >= SPAWN_INTERVAL_MS

\* C3 as stated: every completed sub-step has run the four stages Integrate,
\* BoundaryResolve, SpatialRebuild, CollisionResolve, in this order.
SubStepStageOrder ==
    SubStepDone =>
        stages = <<"Integrate", "BoundaryResolve", "SpatialRebuild",
                   "CollisionResolve">>

\* C4 as stated: a completed sub-step has strictly increased the centre
\* distance of every pair that overlapped, and was not coincident, when the
\* sub-step began.
OverlapSeparated ==
    SubStepDone =>
        \A i \in Particles : \A j \in Particles :
            (i < j /\ Colliding(stepStart, i, j))
                => distanceSquared(positions, i, j)
                     > distanceSquared(stepStart, i, j)

\* C7: Verlet update.  One integration pass sets, for every particle and
\* each axis, position to 2 * position - previousPosition +
\* acceleration * dt * dt and previousPosition to the position before the
\* pass, with the one fixed dt; running the loop body over the particles in
\* any other order gives the same arrays.
VerletUpdate ==
    [][(pc = "physics" /\ pc' = "walls") =>
         /\ \A k \in 1 .. Len(positions) :
               /\ positions'[k] = 2 * positions[k] - lastPositions[k]
                                    + TimesDeltaTimeSquared(acceleration[k])
               /\ lastPositions'[k] = positions[k]
         /\ Len(positions') = Len(positions)
         /\ Len(lastPositions') = Len(lastPositions)
         /\ \A i \in Particles : \A j \in Particles :
               VerletBody(i, VerletBody(j, <<positions, lastPositions>>))
                 = VerletBody(j, VerletBody(i, <<positions, lastPositions>>))
      ]_vars

\* C7 witness: an integration pass has run over at least two particles and
\* moved one of them on both axes.
VerletUpdateWitness ==
    /\ pc = "walls"
    /\ NumParticles >= 2
    /\ \E i \in Particles :
          /\ positions[IX(i)] # lastPositions[IX(i)]
          /\ positions[IY(i)] # lastPositions[IY(i)]

\* C10: the particle count never decreases.  No step shrinks a particle
\* array; the count changes only in the spawn check, and then every array
\* grows by exactly one particle.
CountMonotone ==
    [][/\ Len(positions') >= Len(positions)
       /\ Len(lastPositions') >= Len(lastPositions)
       /\ Len(acceleration') >= Len(acceleration)
       /\ Len(radiusColorData') >= Len(radiusColorData)
       /\ (Len(positions') # Len(positions)) =>
             /\ pc = "spawn"
             /\ Len(positions') = Len(positions) + 2
             /\ Len(lastPositions') = Len(lastPositions) + 2
             /\ Len(acceleration') = Len(acceleration) + 2
             /\ Len(radiusColorData') = Len(radiusColorData) + 4
      ]_vars

\* C10 witness: a frame is rendered after a spawn in the loop has grown the
\* particle set.
CountMonotoneWitness ==
    /\ pc = "loop" /\ tick > 0
    /\ NumParticles = NUMCIRCLES

\* C6 as stated: for every particle and each axis the wall pass leaves the
\* pair (position, previousPosition) that optimizedWallCollision gives with
\* damping 1.0 on the same inputs.
WallPassIsOptimized ==
    [][(pc = "walls" /\ pc' = "physics") =>
         \A i \in Particles :
            /\ <<positions'[IX(i)], lastPositions'[IX(i)]>>
                 = optimizedWallCollision(positions[IX(i)], lastPositions[IX(i)],
                                          wallLeft, wallRight, 2)
            /\ <<positions'[IY(i)], lastPositions'[IY(i)]>>
                 = optimizedWallCollision(positions[IY(i)], lastPositions[IY(i)],
                                          wallBottom, wallTop, 2)
      ]_vars

----------------------------------------------------------------------------
(* Properties of optimizedWallCollision *)

\* C5: Energy non-creation at walls.  After a call with the coordinate
\* beyond a wall, position - previousPosition is minus damping times its
\* value before the call (stated in halves: twice the new difference is
\* minus damping2 times the old one), at the lower and at the upper wall.
WallBounceVelocity ==
    (wpc = "done" /\ (wOldPos < wMin \/ wOldPos > wMax)) =>
        /\ 2 * (wPos - wLast) = 0 - wDamp * (wOldPos - wOldLast)
        /\ wPos = IF wOldPos < wMin THEN wMin ELSE wMax

\* C5 witness: a call with damping 0.5 has bounced a moving coordinate off
\* the upper wall.
WallBounceVelocityWitness ==
    /\ wpc = "done"
    /\ wOldPos > wMax
    /\ wDamp = 1
    /\ wOldPos # wOldLast
    /\ wPos - wLast # 0

----------------------------------------------------------------------------
(* Properties of SpatialGrid *)

\* True circle overlap of two of the caller's particles.
Overlap(a, b) ==
    (a.x - b.x) * (a.x - b.x) + (a.y - b.y) * (a.y - b.y)
        < (a.r + b.r) * (a.r + b.r)

MaxRadius == CHOOSE m \in Radii : \A r \in Radii : r <= m

InRange(seq) == {seq[k] : k \in 1 .. Len(seq)}

\* C8: Neighbor soundness.  With cellSize >= 2 * maxRadius, a query around
\* particle i with a radius of at least r_i + r_j returns j whenever the
\* circles of i and j overlap, wherever the two particles lie.
NeighborSoundness ==
    (gState = "constructed" /\ query # <<>> /\ cellSize >= 2 * MaxRadius) =>
        \A j \in 1 .. Len(parts) :
            LET a == parts[query[1].i + 1]
                b == parts[j]
            IN (Overlap(a, b) /\ query[1].r >= a.r + b.r)
                   => (j - 1) \in InRange(nearby)

\* C8 witness: a query around a particle outside the world bounds returned
\* an overlapping particle that was added to another cell.
NeighborSoundnessWitness ==
    /\ gState = "constructed" /\ query # <<>> /\ cellSize >= 2 * MaxRadius
    /\ \E j \in 1 .. Len(parts) :
          LET a == parts[query[1].i + 1]
              b == parts[j]
          IN /\ j - 1 # query[1].i
             /\ Overlap(a, b) /\ query[1].r >= a.r + b.r
             /\ a.x < worldMinX
             /\ CellIndex(a.x, a.y) # CellIndex(b.x, b.y)
             /\ (j - 1) \in InRange(nearby)

\* C9 as stated: a grid object exists only for cellSize > 0 and world
\* bounds with maxX > minX and maxY > minY; any other construction has ended
\* in an error.
ConfigFailsFast ==
    gState \in {"constructed", "crashed", "corrupt"} =>
        /\ cellSize > 0
        /\ worldMaxX > worldMinX
        /\ worldMaxY > worldMinY

----------------------------------------------------------------------------
(* Static attributes of a particle *)

\* The (radius, r, g, b) tuple stored for particle i.
StaticTuple(rcd, i) == <<rcd[4 * i + 1], rcd[4 * i + 2], rcd[4 * i + 3], rcd[4 * i + 4]>>

\* C11: every particle has a stored tuple whose radius is strictly positive,
\* and no step of the loop
\* changes the radius, the colour or the acceleration stored for a particle
\* that exists: the static vectors change only in the spawn, where exactly
\* one tuple and one acceleration pair are appended behind the old contents;
\* integration and the wall pass leave both vectors as they are.
StaticAttributesImmutable ==
    /\ [](/\ Len(radiusColorData) >= 4 * NumParticles
          /\ \A i \in Particles : StaticTuple(radiusColorData, i)[1] > 0)
    /\ [][/\ Len(radiusColorData') >= Len(radiusColorData)
          /\ Len(acceleration') >= Len(acceleration)
          /\ SubSeq(radiusColorData', 1, Len(radiusColorData)) = radiusColorData
          /\ SubSeq(acceleration', 1, Len(acceleration)) = acceleration
          /\ (Len(positions') # Len(positions)) =>
                /\ pc = "spawn"
                /\ Len(radiusColorData') = Len(radiusColorData) + 4
                /\ Len(acceleration') = Len(acceleration) + 2
          /\ (pc # "spawn") =>
                /\ radiusColorData' = radiusColorData
                /\ acceleration' = acceleration]_vars

\* Two particles exist and a sub-step has run on both after the second spawn.
StaticAttributesImmutableWitness ==
    /\ SubStepDone
    /\ NumParticles = 2
    /\ StaticTuple(radiusColorData, 0) = <<radius, Unit, Unit, Unit>>
    /\ StaticTuple(radiusColorData, 1) = <<radius, Unit, Unit, Unit>>
    /\ positions[IX(0)] # positions[IX(1)]

----------------------------------------------------------------------------
(* The two axes in the wall pass *)

\* Coordinate p of an axis with walls lo and hi is strictly beyond a wall.
BeyondWall(p, lo, hi) == p < lo \/ p > hi

\* The wall a coordinate beyond a wall is clamped to.
NearestWall(p, lo, hi) == IF p < lo THEN lo ELSE hi

AxisOutcome(p, l, p2, l2, lo, hi) ==
    /\ (p <= lo) => (p2 = lo /\ l2 = lo + (lo - l))
    /\ (p >= hi) => (p2 = hi /\ l2 = hi + (hi - l))
    /\ (lo < p /\ p < hi) => (p2 = p /\ l2 = l)

\* The part of C12 the wall pass does satisfy: each axis is resolved from its
\* own position and lastPosition only, in the same pass, also at a corner.
AxesResolvedIndependently ==
    [][pc = "walls" =>
        \A i \in Particles :
            /\ AxisOutcome(positions[IX(i)], lastPositions[IX(i)],
                           positions'[IX(i)], lastPositions'[IX(i)],
                           wallLeft, wallRight)
            /\ AxisOutcome(positions[IY(i)], lastPositions[IY(i)],
                           positions'[IY(i)], lastPositions'[IY(i)],
                           wallBottom, wallTop)]_vars

----------------------------------------------------------------------------
(* The iteration of the render loop as a state machine *)

IsPrefix(a, b) == Len(a) <= Len(b) /\ SubSeq(b, 1, Len(a)) = a

\* Spawn check, K sub-steps, hand-off to the renderer; K = UPDATER_PER_FRAME.
ExpectedFrame ==
    <<"SpawnCheck">> \o [k \in 1 .. UPDATER_PER_FRAME |-> "SubStep"]
                    \o <<"Render">>

\* C13: every iteration of the render loop runs the spawn check first, then
\* exactly UPDATER_PER_FRAME sub-steps, then hands the positions to the
\* renderer, in this order and the same in every iteration; the spawn check
\* adds at most one particle and only when the spawn interval has elapsed
\* since the last spawn; the position buffer of the renderer changes only
\* after the last sub-step of an iteration has run both of its passes, and
\* then holds the positions of that moment.
FrameStateMachine ==
    /\ [](/\ IsPrefix(frameLog, ExpectedFrame)
          /\ (pc = "loop" /\ tick > 0) =>
                (frameLog = ExpectedFrame /\ uploaded = positions))
    /\ [][/\ (Len(positions') # Len(positions)) =>
                /\ pc = "spawn"
                /\ frameLog = <<>>
                /\ Len(positions') = Len(positions) + 2
                /\ timeFromLastSpawn >= SPAWN_INTERVAL_MS
                /\ timeFromLastSpawn' = 0
          /\ (uploaded' # uploaded) =>
                /\ pc = "physics"
                /\ physicsStep = UPDATER_PER_FRAME
                /\ stages = <<"Integrate", "BoundaryResolve">>
                /\ uploaded' = positions]_vars

\* An iteration that spawned a particle has ended: the renderer holds the
\* positions of both particles after the sub-steps.
FrameStateMachineWitness ==
    /\ pc = "loop"
    /\ tick >= 2
    /\ frameLog = ExpectedFrame
    /\ timeFromLastSpawn = 0
    /\ NumParticles >= 2
    /\ uploaded = positions

----------------------------------------------------------------------------
(* The parallel arrays *)

\* C15: in every state of the loop, with n = NUMCIRCLES -
\* remainingCirclesToSpawn, 1 <= n <= NUMCIRCLES, positions, lastPositions
\* and acceleration hold 2 * n entries each and radiusColorData holds 4 * n;
\* so the entries i * 2 and i * 2 + 1 of every particle i below the loop
\* bound of the two passes exist in the three arrays, and the uploaded
\* buffer holds a position for every instance of the last draw call.
ArraysInLockStep ==
    LET n == NUMCIRCLES - remainingCirclesToSpawn
    IN /\ 1 <= n
       /\ n <= NUMCIRCLES
       /\ Len(positions) = 2 * n
       /\ Len(lastPositions) = 2 * n
       /\ Len(acceleration) = 2 * n
       /\ Len(radiusColorData) = 4 * n
       /\ \A i \in 0 .. (LiveCount - 1) :
             /\ {IX(i), IY(i)} \subseteq DOMAIN positions
             /\ {IX(i), IY(i)} \subseteq DOMAIN lastPositions
             /\ {IX(i), IY(i)} \subseteq DOMAIN acceleration
       /\ 2 * instances <= Len(uploaded)
       /\ instances <= n

\* All particles are spawned and drawn, and a sub-step has run on them.
ArraysInLockStepWitness ==
    /\ pc = "loop"
    /\ remainingCirclesToSpawn = 0
    /\ instances = NUMCIRCLES
    /\ Len(uploaded) = 2 * NUMCIRCLES
    /\ Len(radiusColorData) = 4 * NUMCIRCLES

----------------------------------------------------------------------------
(* Bucketing of the grid *)

\* The grid was constructed from a positive cell size and ordered bounds.
ValidGrid ==
    /\ gState = "constructed"
    /\ cellSize > 0
    /\ worldMaxX > worldMinX
    /\ worldMaxY > worldMinY

\* The cell coordinate of v on an axis of n cells starting at lo, for a
\* positive cell size: cell 0 below the world, cell n - 1 beyond the last
\* cell, and the cell v lies in otherwise.
CellOf(v, lo, n) ==
    IF v < lo THEN 0
    ELSE IF v - lo >= n * cellSize THEN n - 1
    ELSE CHOOSE c \in 0 .. (n - 1) :
            c * cellSize <= v - lo /\ v - lo < (c + 1) * cellSize

\* The places <<bucket, position>> of the grid that hold the id.
Places(g, id) ==
    {pl \in (DOMAIN g) \X (0 .. Len(parts)) :
        pl[2] \in DOMAIN g[pl[1]] /\ g[pl[1]][pl[2]] = id}

\* C14: for a grid constructed from valid arguments and any coordinates,
\* addParticle never leaves the buckets: it appends the id to exactly one
\* bucket, the one of the clamped cell coordinates, and changes no other
\* bucket; clear() leaves every bucket empty; so every id added since the
\* last clear() is in exactly one place of the grid, the buckets hold
\* nothing else, and getNearbyParticles returns no id twice.
GridBucketing ==
    /\ [](ValidGrid =>
            /\ Len(grid) = gridWidth * gridHeight
            /\ \A id \in 0 .. (Len(parts) - 1) :
                  /\ Cardinality(Places(grid, id)) = 1
                  /\ \E pl \in Places(grid, id) :
                        pl[1] - 1 =
                            CellOf(parts[id + 1].y, worldMinY, gridHeight)
                                * gridWidth
                            + CellOf(parts[id + 1].x, worldMinX, gridWidth)
            /\ \A k \in DOMAIN grid : \A j \in DOMAIN grid[k] :
                  grid[k][j] \in 0 .. (Len(parts) - 1)
            /\ \A a \in DOMAIN nearby : \A b \in DOMAIN nearby :
                  (a # b) => (nearby[a] # nearby[b]))
    /\ [][ValidGrid =>
            /\ gState' = "constructed"
            /\ (Len(parts') > Len(parts)) =>
                  \E k \in DOMAIN grid :
                      grid' = [grid EXCEPT ![k] = Append(@, Len(parts))]
            /\ (Len(parts') < Len(parts)) =>
                  \A k \in DOMAIN grid' : grid'[k] = <<>>
            /\ (Len(parts') = Len(parts)) => (grid' = grid)]_vars

\* A valid grid holds a particle clamped in from below the world and one
\* clamped in from beyond it, in different buckets, and a query around the
\* first has returned both.
GridBucketingWitness ==
    /\ ValidGrid
    /\ Len(parts) = 2
    /\ parts[1].x <= worldMinX - cellSize
    /\ parts[2].x >= worldMinX + gridWidth * cellSize
    /\ parts[2].y >= worldMinY + gridHeight * cellSize
    /\ Places(grid, 0) # Places(grid, 1)
    /\ \A pl \in Places(grid, 0) : Len(grid[pl[1]]) = 1
    /\ Len(nearby) = 2

----------------------------------------------------------------------------
(* The rolling window of the profiler *)

RECURSIVE SumSeq(_)
SumSeq(q) == IF q = <<>> THEN 0 ELSE Head(q) + SumSeq(Tail(q))

\* The durations of all endTimer calls with the name, in call order.
Measured(name) ==
    LET OfName(c) == c.name = name
        sel == SelectSeq(calls, OfName)
    IN [k \in 1 .. Len(sel) |-> sel[k].microseconds]

\* The last n elements of q (all of q if it has fewer).
LastOf(q, n) == SubSeq(q, Max(1, Len(q) - n + 1), Len(q))

\* C16: after any calls of startTimer and endTimer there is one entry per
\* name that endTimer was called with and no other entry, and every entry
\* holds at most MaxMeasurements measurements, the most recent ones of its
\* name in call order, with callCount their number and totalTime their sum.
RollingWindow ==
    /\ \A a \in DOMAIN timers : \A b \in DOMAIN timers :
          (timers[a].name = timers[b].name) => (a = b)
    /\ \A c \in DOMAIN calls : \E k \in DOMAIN timers :
          timers[k].name = calls[c].name
    /\ \A k \in DOMAIN timers :
          /\ Len(timers[k].measurements) <= MaxMeasurements
          /\ timers[k].callCount = Len(timers[k].measurements)
          /\ timers[k].totalTime = SumSeq(timers[k].measurements)
          /\ timers[k].measurements =
                LastOf(Measured(timers[k].name), MaxMeasurements)
          /\ timers[k].measurements # <<>>

\* Two names have entries; one of them has had more calls than the window
\* holds, so its oldest measurement, different from the ones kept, is gone.
RollingWindowWitness ==
    /\ Len(timers) = 2
    /\ \E k \in DOMAIN timers :
          /\ Len(Measured(timers[k].name)) > MaxMeasurements
          /\ Len(timers[k].measurements) = MaxMeasurements
          /\ \A j \in DOMAIN timers[k].measurements :
                timers[k].measurements[j] # Measured(timers[k].name)[1]

====
